---- MODULE Spec2Model ----
(***************************************************************************)
(* Model of the cleaning pipeline of src/src/cleaning.py                   *)
(* (clean_world_data and its helpers).                                     *)
(*                                                                         *)
(* Representation.                                                         *)
(*  - A table (DataFrame) is a sequence of rows; a row is a record.  The   *)
(*    field src of a row is the position of the row in df_raw; it is the   *)
(*    row's identity and is never read by the pipeline's own decisions.    *)
(*  - A missing identifier or grouping cell (None / NaN) is NA.            *)
(*  - A float64 cell is <<>> for NaN and <<h>> for the number h/2: the     *)
(*    model stores twice the value, which is exact because every input     *)
(*    number is an integer and the only arithmetic on a column is the      *)
(*    median (the mean of the two middle values); a second call finds each *)
(*    imputed column entirely null or entirely non-null and averages       *)
(*    nothing.                                                             *)
(*  - A raw numeric cell is None, an integer, or a text (a sequence of     *)
(*    one-character strings).                                              *)
(*  - pop_density is a reduced fraction <<numerator, denominator>>.        *)
(*  - columns is the set of columns of the table handed in; a row keeps a  *)
(*    placeholder cell for a column that does not exist, and the pipeline  *)
(*    raises (pc = "raised", error = the KeyError's keys) where the code   *)
(*    would index that column.                                             *)
(*  - calls holds the results of the calls already returned.               *)
(*                                                                         *)
(* Specifications.                                                         *)
(*  - Spec: one call on every table of up to MaxRows rows of RowPool.      *)
(*  - SpecSchema: one call on tables that lack any set of columns.         *)
(*  - SpecCoerce: one call on a record with a textual pop cell.            *)
(*  - SpecDedup: Steps F to H on every table Step F can be handed.         *)
(*  - SpecTwice: a call, and a second call on the table it returned.       *)
(***************************************************************************)
EXTENDS Integers, Sequences, FiniteSets, TLC

VARIABLES pc, generate_report, columns, df_raw, df, report, stage, error, calls

vars == <<pc, generate_report, columns, df_raw, df, report, stage, error, calls>>

\* ----- bounds ------------------------------------------------------------
\* Greatest number of rows of an input table.
MaxRows == 3

\* ----- module constants (cleaning.py:23-25) -------------------------------
NUMERIC_COLS == <<"area_km2", "pop", "lifeExp", "gdpPercap">>
IDENTIFIER_COLS == <<"iso_a2", "name_long">>
GROUP_COLS == <<"continent", "subregion">>

\* groups_priority as passed by clean_world_data (cleaning.py:129)
GroupsPriority == <<"subregion", "continent">>

\* upper end of the plausible lifeExp range (cleaning.py:119)
LifeExpUpper == 120

\* ----- cells -------------------------------------------------------------
NA == "<NA>"
NaN == <<>>
IsNa(c) == c = NaN
NotNa(c) == c # NaN
\* the float cell holding the integer n
Flt(n) == <<2 * n>>
\* twice the value of a non-NaN float cell
H(c) == c[1]

None == [kind |-> "none"]
Int_(n) == [kind |-> "int", v |-> n]
Text(s) == [kind |-> "text", s |-> s]
\* a float cell of a table that is already numeric, h being twice its value
Float_(h) == [kind |-> "flt", h |-> h]

SeqRange(s) == {s[i] : i \in 1..Len(s)}

\* pandas builds a Series eagerly: the function f on 1..n as a sequence
Series(f) == f \o <<>>

\* ----- text handling of _to_numeric_safe ----------------------------------
NBSP == "NBSP"
DigitChars == <<"0", "1", "2", "3", "4", "5", "6", "7", "8", "9">>
IsDigit(c) == \E d \in 1..10 : DigitChars[d] = c
DigitVal(c) == (CHOOSE d \in 1..10 : DigitChars[d] = c) - 1

\* str(n) for a Python int
RECURSIVE NatToChars(_)
NatToChars(n) ==
    IF n < 10 THEN <<DigitChars[n + 1]>>
    ELSE NatToChars(n \div 10) \o <<DigitChars[(n % 10) + 1]>>

IntToChars(n) == IF n < 0 THEN <<"-">> \o NatToChars(-n) ELSE NatToChars(n)

\* str(x) for a Python float that is a multiple of one half
FloatToChars(h) ==
    (IF h < 0 THEN <<"-">> ELSE <<>>)
        \o NatToChars((IF h < 0 THEN -h ELSE h) \div 2)
        \o <<".", IF h % 2 = 0 THEN "0" ELSE "5">>

\* Series.astype(str) on one cell of an object column
AsStr(cell) ==
    CASE cell.kind = "text" -> cell.s
      [] cell.kind = "int"  -> IntToChars(cell.v)
      [] cell.kind = "flt"  -> FloatToChars(cell.h)
      [] OTHER              -> <<"N", "o", "n", "e">>

\* .str.replace(NBSP, " "): a non-breaking space becomes a plain space
ReplaceNbsp(s) == Series([i \in 1..Len(s) |-> IF s[i] = NBSP THEN " " ELSE s[i]])

\* .str.replace(",", "")
RemoveCommas(s) == SelectSeq(s, LAMBDA c : c # ",")

\* .str.strip()
RECURSIVE LStrip(_)
LStrip(s) == IF s # <<>> /\ Head(s) = " " THEN LStrip(Tail(s)) ELSE s

RECURSIVE RStrip(_)
RStrip(s) ==
    IF s # <<>> /\ s[Len(s)] = " " THEN RStrip(SubSeq(s, 1, Len(s) - 1)) ELSE s

Strip(s) == RStrip(LStrip(s))

\* the strings cleaned.replace({...}) turns into NaN
NanStrings == {<<>>, <<"n", "a", "n">>, <<"N", "a", "n">>}

RECURSIVE DigitsValue(_)
DigitsValue(s) ==
    IF s = <<>> THEN 0
    ELSE 10 * DigitsValue(SubSeq(s, 1, Len(s) - 1)) + DigitVal(s[Len(s)])

AllDigits(s) == s # <<>> /\ \A i \in 1..Len(s) : IsDigit(s[i])

\* an unsigned decimal: a run of digits, or one followed by ".0" or ".5"
ParseUnsigned(s) ==
    IF AllDigits(s) THEN Flt(DigitsValue(s))
    ELSE IF /\ Len(s) >= 3
            /\ s[Len(s) - 1] = "."
            /\ s[Len(s)] \in {"0", "5"}
            /\ AllDigits(SubSeq(s, 1, Len(s) - 2))
         THEN <<2 * DigitsValue(SubSeq(s, 1, Len(s) - 2))
                    + (IF s[Len(s)] = "5" THEN 1 ELSE 0)>>
         ELSE NaN

\* pd.to_numeric(..., errors="coerce") on one string: an optionally signed
\* decimal is the number, anything else is NaN
ParseNumber(s) ==
    IF s # <<>> /\ Head(s) = "-"
    THEN IF ParseUnsigned(Tail(s)) = NaN THEN NaN
         ELSE <<-H(ParseUnsigned(Tail(s)))>>
    ELSE ParseUnsigned(s)

CleanText(s) == Strip(RemoveCommas(ReplaceNbsp(s)))

CoerceText(s) ==
    IF CleanText(s) \in NanStrings THEN NaN ELSE ParseNumber(CleanText(s))

\* dtype of a raw column: numeric unless some cell is a text
IsNumericDtype(col) == \A i \in 1..Len(col) : col[i].kind # "text"

\* a coercion that loses the cells of a float column
ToNumericSafe_dropsFloats(col) ==
    IF IsNumericDtype(col)
    THEN Series([i \in 1..Len(col) |->
                   IF col[i].kind = "int" THEN Flt(col[i].v) ELSE NaN])
    ELSE Series([i \in 1..Len(col) |-> CoerceText(AsStr(col[i]))])

\* _to_numeric_safe on a whole column (a sequence of raw cells)
ToNumericSafe(col) ==
    IF IsNumericDtype(col)
    THEN Series([i \in 1..Len(col) |->
                   CASE col[i].kind = "int" -> Flt(col[i].v)
                     [] col[i].kind = "flt" -> <<col[i].h>>
                     [] OTHER               -> NaN])
    ELSE Series([i \in 1..Len(col) |-> CoerceText(AsStr(col[i]))])

\* ----- tables ------------------------------------------------------------
Column(t, col) == Series([i \in 1..Len(t) |-> t[i][col]])

\* df[col] = values (aligned by position)
SetColumn(t, col, values) ==
    Series([i \in 1..Len(t) |-> [t[i] EXCEPT ![col] = values[i]]])

Srcs(t) == {t[i].src : i \in 1..Len(t)}

\* number of True cells of a boolean mask given as a set of positions
MaskSum(mask) == Cardinality(mask)

\* ----- median ------------------------------------------------------------
RECURSIVE Insert(_, _)
Insert(x, s) ==
    IF s = <<>> THEN <<x>>
    ELSE IF x <= Head(s) THEN <<x>> \o s
         ELSE <<Head(s)>> \o Insert(x, Tail(s))

RECURSIVE SortAsc(_)
SortAsc(s) == IF s = <<>> THEN <<>> ELSE Insert(Head(s), SortAsc(Tail(s)))

\* Series.median(): NaN cells are skipped; NaN when nothing is left
Median(cells) ==
    LET present == SelectSeq(cells, NotNa)
        sorted  == SortAsc(Series([i \in 1..Len(present) |-> H(present[i])]))
        n       == Len(sorted)
    IN  IF n = 0 THEN NaN
        ELSE IF n % 2 = 1 THEN <<sorted[(n + 1) \div 2]>>
             ELSE <<(sorted[n \div 2] + sorted[(n \div 2) + 1]) \div 2>>

\* df.groupby(gcol)[col].median(): the index holds every non-NA key of gcol
\* (groupby drops NA keys), also the keys whose group has no value of col
GroupKeys(t, gcol) == {t[i][gcol] : i \in 1..Len(t)} \ {NA}

\* a group median that ignores the group
GroupMedian_wholeTable(t, gcol, col, key) == Median(Column(t, col))

GroupMedian(t, gcol, col, key) ==
    Median(Column(SelectSeq(t, LAMBDA r : r[gcol] = key), col))

\* ----- _imputation_groupwise_median ---------------------------------------
MissingIdx(filled) == {i \in 1..Len(filled) : IsNa(filled[i])}

\* one grouped tier: the rows the tier addresses, and the column after it
TierIdx(t, gcol, missing_idx) ==
    {i \in missing_idx : t[i][gcol] # NA /\ t[i][gcol] \in GroupKeys(t, gcol)}

TierFill(t, gcol, col, filled, idx) ==
    Series([i \in 1..Len(filled) |->
               IF i \in idx THEN GroupMedian(t, gcol, col, t[i][gcol]) ELSE filled[i]])

\* a global tier that fills nothing
GlobalFill_skipped(t, col, filled, missing_idx) == filled

\* the global tier: filled.loc[missing_idx] = df[col].median()
GlobalFill(t, col, filled, missing_idx) ==
    Series([i \in 1..Len(filled) |->
               IF i \in missing_idx THEN Median(Column(t, col)) ELSE filled[i]])

\* raised is the set of keys of the KeyError df.groupby raises for a grouping
\* column the table does not have, and {} when the function returns
ImputationGroupwiseMedian(t, col, groups_priority) ==
    LET filled0  == Column(t, col)
        missing0 == MissingIdx(filled0)
        doSub    == "subregion" \in SeqRange(groups_priority)
        idxS     == TierIdx(t, "subregion", missing0)
        filled1  == IF doSub THEN TierFill(t, "subregion", col, filled0, idxS)
                    ELSE filled0
        missing1 == MissingIdx(filled1)
        doCont   == "continent" \in SeqRange(groups_priority) /\ missing1 # {}
        idxC     == TierIdx(t, "continent", missing1)
        filled2  == IF doCont THEN TierFill(t, "continent", col, filled1, idxC)
                    ELSE filled1
        missing2 == MissingIdx(filled2)
        filled3  == GlobalFill(t, col, filled2, missing2)
        zero     == [by_subregion |-> 0, by_continent |-> 0, by_global |-> 0]
    IN  IF missing0 = {}
        THEN [filled |-> filled0, report |-> zero, raised |-> {}]
        ELSE IF doSub /\ "subregion" \notin columns
        THEN [filled |-> filled0, report |-> zero, raised |-> {"subregion"}]
        ELSE IF doCont /\ "continent" \notin columns
        THEN [filled |-> filled1, report |-> zero, raised |-> {"continent"}]
        ELSE [filled |-> filled3,
              report |-> [by_subregion |-> IF doSub THEN MaskSum(idxS) ELSE 0,
                          by_continent |-> IF doCont THEN MaskSum(idxC) ELSE 0,
                          by_global    |-> MaskSum(missing2)],
              raised |-> {}]

\* ----- _choose_row_with_more_non_nulls ------------------------------------
NonNullCount(r, important_cols) ==
    Cardinality({k \in 1..Len(important_cols) : NotNa(r[important_cols[k]])})

\* a choice that ignores the counts
ChooseRowWithMoreNonNulls_first(rows, important_cols) == rows[1]

\* counts.idxmax(): the first row holding the greatest count
ChooseRowWithMoreNonNulls(rows, important_cols) ==
    LET counts == Series([i \in 1..Len(rows) |-> NonNullCount(rows[i], important_cols)])
        best   == CHOOSE i \in 1..Len(rows) :
                    /\ \A j \in 1..Len(rows) : counts[j] <= counts[i]
                    /\ \A j \in 1..(i - 1) : counts[j] < counts[i]
    IN  rows[best]

\* ----- deduplication (Step F) ---------------------------------------------
\* the order groupby("iso_a2") visits its keys in: sorted
IsoOrder == <<"AA", "BB", "CC">>

\* a test that sees duplicates only in neighbouring rows
HasDuplicates_adjacent(t) ==
    \E i \in 1..(Len(t) - 1) : t[i].iso_a2 = t[i + 1].iso_a2

\* df["iso_a2"].duplicated().any()
HasDuplicates(t) ==
    \E i, j \in 1..Len(t) : i < j /\ t[i].iso_a2 = t[j].iso_a2

GroupOf(t, code) == SelectSeq(t, LAMBDA r : r.iso_a2 = code)

KeptRow(t, code) ==
    IF Len(GroupOf(t, code)) = 1 THEN GroupOf(t, code)[1]
    ELSE ChooseRowWithMoreNonNulls(GroupOf(t, code), NUMERIC_COLS)

RECURSIVE KeptRows(_, _)
KeptRows(t, k) ==
    IF k > Len(IsoOrder) THEN <<>>
    ELSE (IF GroupOf(t, IsoOrder[k]) = <<>> THEN <<>>
          ELSE <<KeptRow(t, IsoOrder[k])>>) \o KeptRows(t, k + 1)

\* a deduplication that keeps every row
Deduplicate_keepAll(t) == t

Deduplicate(t) == IF HasDuplicates(t) THEN KeptRows(t, 1) ELSE t

\* ----- pop_density (Step G) -----------------------------------------------
RECURSIVE Gcd(_, _)
Gcd(a, b) == IF b = 0 THEN a ELSE Gcd(b, a % b)

Abs(x) == IF x < 0 THEN -x ELSE x

\* a density with the operands exchanged
Divide_swapped(p, a) ==
    IF IsNa(p) \/ IsNa(a) THEN NaN
    ELSE IF H(p) = 0 THEN <<1, 0>>
    ELSE LET g == Gcd(Abs(H(p)), Abs(H(a)))
         IN  <<H(a) \div g, H(p) \div g>>

\* float division p / a: NaN when an operand is NaN, otherwise the quotient
\* as a reduced fraction with a positive denominator (<<s, 0>> is +-inf, nan)
Divide(p, a) ==
    IF IsNa(p) \/ IsNa(a) THEN NaN
    ELSE IF H(a) = 0 THEN <<(IF H(p) > 0 THEN 1 ELSE IF H(p) < 0 THEN -1 ELSE 0), 0>>
    ELSE LET g == Gcd(Abs(H(p)), Abs(H(a)))
             s == IF H(a) < 0 THEN -1 ELSE 1
         IN  <<s * (H(p) \div g), s * (H(a) \div g)>>

\* ----- input tables --------------------------------------------------------
Row(iso, name, cont, sub, area, pop_, life, gdp) ==
    [iso_a2 |-> iso, name_long |-> name, continent |-> cont, subregion |-> sub,
     area_km2 |-> area, pop |-> pop_, lifeExp |-> life, gdpPercap |-> gdp]

\* The rows an input table is made of: a fully valid record, copies of it with
\* one numeric field missing, records of other subregions and continents with
\* and without values to impute from, records with non-positive or
\* out-of-range values, records without identifiers, and a record with text
\* cells.
RowPool ==
    { Row("AA", "Alfa", "C1", "S1", Int_(10), Int_(20), Int_(80), Int_(100)),
      Row("AA", "Alfa", "C1", "S1", Int_(10), Int_(20), None,     Int_(100)),
      Row("AA", "Alfa", "C1", "S1", None,     Int_(20), Int_(80), Int_(100)),
      Row("BB", "Bravo", "C1", "S1", Int_(10), Int_(20), Int_(60), Int_(300)),
      Row("BB", "Bravo", "C1", "S2", Int_(10), Int_(20), None,     None),
      Row("CC", "Charlie", "C2", "S3", Int_(10), Int_(30), None,   None),
      Row("CC", "Charlie", NA,   NA,   Int_(10), Int_(20), None,   Int_(200)),
      Row("BB", "Bravo", "C1", "S1", Int_(0),  None,     Int_(60), Int_(300)),
      Row("BB", "Bravo", "C1", "S1", Int_(10), Int_(-10), Int_(60), Int_(300)),
      Row("BB", "Bravo", "C1", "S2", Int_(10), Int_(20), Int_(70), Int_(0)),
      Row("BB", "Bravo", "C1", "S2", Int_(10), Int_(20), Int_(120), Int_(100)),
      Row("CC", "Charlie", "C2", "S3", Int_(10), Int_(20), Int_(0), Int_(200)),
      Row("CC", "Charlie", "C2", "S3", Int_(10), None,     Int_(55), Int_(200)),
      Row(NA,   "Foxtrot", "C1", "S1", Int_(0),  Int_(20), Int_(75), Int_(100)),
      Row("AA", NA,        "C1", "S1", Int_(10), Int_(20), Int_(75), Int_(100)),
      Row("BB", "Bravo", "C1", "S1",
          Text(<<"1", ",", "0", "0", "0">>), Text(<<" ", "2", "0", " ">>),
          Int_(60), Text(<<"n", "a", "n">>)) }

\* the table made of the given rows, each tagged with its position
Tagged(rows) ==
    Series([i \in 1..Len(rows) |->
               [src |-> i, iso_a2 |-> rows[i].iso_a2, name_long |-> rows[i].name_long,
                continent |-> rows[i].continent, subregion |-> rows[i].subregion,
                area_km2 |-> rows[i].area_km2, pop |-> rows[i].pop,
                lifeExp |-> rows[i].lifeExp, gdpPercap |-> rows[i].gdpPercap]])

\* the columns clean_world_data indexes
RequiredColumns ==
    SeqRange(IDENTIFIER_COLS) \cup SeqRange(NUMERIC_COLS) \cup SeqRange(GROUP_COLS)

\* ----- clean_world_data -----------------------------------------------------
EmptyStages ==
    [A |-> <<>>, B |-> <<>>, C_drop |-> <<>>, C |-> <<>>, D |-> <<>>,
     E |-> <<>>, F |-> <<>>]

\* the state on entry, called with the given table
Enter(table, cols) ==
    /\ pc = "A"
    /\ generate_report = TRUE
    /\ columns = cols
    /\ df_raw = table
    /\ df = df_raw
    /\ report = [steps |-> <<>>]
    /\ stage = EmptyStages
    /\ error = {}
    /\ calls = <<>>

Init ==
    \E n \in 0..MaxRows : \E rows \in [1..n -> RowPool] :
        Enter(Tagged(rows), RequiredColumns)

\* raise KeyError(keys): the call ends without a result
Raise(keys) ==
    /\ pc' = "raised"
    /\ error' = keys

AddStep(rep, text) == [rep EXCEPT !.steps = Append(@, text)]

\* Step A: drop rows with missing identifiers
\* an identifier check that looks at iso_a2 only
HasIdentifiers_isoOnly(r) == r.iso_a2 # NA

HasIdentifiers(r) ==
    \A k \in 1..Len(IDENTIFIER_COLS) : r[IDENTIFIER_COLS[k]] # NA

StepA ==
    /\ pc = "A"
    /\ IF SeqRange(IDENTIFIER_COLS) \subseteq columns
       THEN LET kept    == SelectSeq(df, HasIdentifiers)
                dropped == Len(df) - Len(kept)
            IN  /\ df' = kept
                /\ report' = AddStep(
                        report @@ [dropped_missing_identifiers |-> dropped],
                        <<"Drop missing identifiers: ", dropped>>)
                /\ stage' = [stage EXCEPT !.A = kept]
                /\ pc' = "B"
                /\ UNCHANGED error
       ELSE \* dropna(subset=...) names every column of the subset it misses
            /\ Raise(SeqRange(IDENTIFIER_COLS) \ columns)
            /\ UNCHANGED <<df, report, stage>>
    /\ UNCHANGED <<generate_report, columns, df_raw, calls>>

\* Step B: numeric conversion
RECURSIVE ConvertColumns(_, _)
ConvertColumns(t, k) ==
    IF k > Len(NUMERIC_COLS) THEN t
    ELSE IF NUMERIC_COLS[k] \notin columns THEN ConvertColumns(t, k + 1)
    ELSE ConvertColumns(
            SetColumn(t, NUMERIC_COLS[k], ToNumericSafe(Column(t, NUMERIC_COLS[k]))),
            k + 1)

StepB ==
    /\ pc = "B"
    /\ df' = ConvertColumns(df, 1)
    /\ report' = AddStep(report, <<"Converted numeric columns safely">>)
    /\ stage' = [stage EXCEPT !.B = df']
    /\ pc' = "C"
    /\ UNCHANGED <<generate_report, columns, df_raw, error, calls>>

\* Step C: invalid-value filtering
\* a comparison with NaN is False
LeqZero(c) == NotNa(c) /\ H(c) <= 0

\* an upper limit that lets the limit itself through
GeqUpper_strict(c) == NotNa(c) /\ H(c) > 2 * LifeExpUpper

GeqUpper(c) == NotNa(c) /\ H(c) >= 2 * LifeExpUpper

\* a mask that does not look at gdpPercap
InvalidMask_noGdp(r) == LeqZero(r.pop) \/ LeqZero(r.area_km2)

\* a mask that counts a missing value as invalid
InvalidMask_nanInvalid(r) ==
    \/ IsNa(r.pop) \/ LeqZero(r.pop)
    \/ IsNa(r.area_km2) \/ LeqZero(r.area_km2)
    \/ IsNa(r.gdpPercap) \/ LeqZero(r.gdpPercap)

InvalidMask(r) ==
    LeqZero(r.pop) \/ LeqZero(r.area_km2) \/ LeqZero(r.gdpPercap)

\* a range test without the lower limit
OutOfRange_upperOnly(r) == GeqUpper(r.lifeExp)

OutOfRange(r) == LeqZero(r.lifeExp) \/ GeqUpper(r.lifeExp)

\* the columns the mask indexes, in the order it indexes them
MaskCols == <<"pop", "area_km2", "gdpPercap">>

\* the first column of cols the table does not have, as a set
FirstAbsent(cols) ==
    {cols[k] : k \in {n \in 1..Len(cols) :
        cols[n] \notin columns /\ \A m \in 1..(n - 1) : cols[m] \in columns}}

StepC ==
    /\ pc = "C"
    /\ LET kept   == SelectSeq(df, LAMBDA r : ~InvalidMask(r))
           oor    == {i \in 1..Len(kept) : OutOfRange(kept[i])}
           nulled == Series([i \in 1..Len(kept) |->
                               IF i \in oor THEN [kept[i] EXCEPT !.lifeExp = NaN]
                               ELSE kept[i]])
           rep1   == report @@ [dropped_invalid_nonpositive |-> Len(df) - Len(kept)]
           rep2   == IF oor # {}
                     THEN rep1 @@ [lifeExp_out_of_range_set_nan |-> MaskSum(oor)]
                     ELSE rep1
       IN  IF FirstAbsent(MaskCols) # {}
           THEN /\ Raise(FirstAbsent(MaskCols))
                /\ UNCHANGED <<df, report, stage>>
           ELSE IF "lifeExp" \notin columns
           THEN /\ Raise({"lifeExp"})
                /\ df' = kept
                /\ report' = rep1
                /\ stage' = [stage EXCEPT !.C_drop = kept]
           ELSE /\ df' = nulled
                /\ report' = AddStep(rep2,
                        <<"Filtered invalid values and bounded life expectancy">>)
                /\ stage' = [stage EXCEPT !.C_drop = kept, !.C = nulled]
                /\ pc' = "D"
                /\ UNCHANGED error
    /\ UNCHANGED <<generate_report, columns, df_raw, calls>>

\* Step D: imputation for lifeExp & gdpPercap
StepD ==
    /\ pc = "D"
    /\ LET impL == ImputationGroupwiseMedian(df, "lifeExp", GroupsPriority)
           df1  == SetColumn(df, "lifeExp", impL.filled)
           impG == ImputationGroupwiseMedian(df1, "gdpPercap", GroupsPriority)
           df2  == SetColumn(df1, "gdpPercap", impG.filled)
       IN  IF impL.raised # {}
           THEN /\ Raise(impL.raised)
                /\ UNCHANGED <<df, report, stage>>
           ELSE IF impG.raised # {}
           THEN /\ Raise(impG.raised)
                /\ df' = df1
                /\ report' = report @@ [impute_lifeExp |-> impL.report]
                /\ UNCHANGED stage
           ELSE /\ df' = df2
                /\ report' = AddStep(
                      report @@ [impute_lifeExp |-> impL.report,
                                 impute_gdpPercap |-> impG.report],
                      <<"Imputed lifeExp & gdpPercap via group-wise median with fallbacks">>)
                /\ stage' = [stage EXCEPT !.D = df2]
                /\ pc' = "E"
                /\ UNCHANGED error
    /\ UNCHANGED <<generate_report, columns, df_raw, calls>>

\* Step E: drop rows still missing critical numeric columns area_km2/pop
\* a completeness test that looks at area_km2 only
HasCriticalFields_areaOnly(r) == NotNa(r.area_km2)

\* dropna(subset=["area_km2", "pop"])
HasCriticalFields(r) == NotNa(r.area_km2) /\ NotNa(r.pop)

StepE ==
    /\ pc = "E"
    /\ LET kept == SelectSeq(df, HasCriticalFields)
       IN  /\ df' = kept
           /\ report' = AddStep(
                 report @@ [dropped_missing_area_or_pop |-> Len(df) - Len(kept)],
                 <<"Drop rows still missing area_km2 or pop">>)
           /\ stage' = [stage EXCEPT !.E = kept]
    /\ pc' = "F"
    /\ UNCHANGED <<generate_report, columns, df_raw, error, calls>>

\* Step F: deduplicate by iso_a2, keep the one with more non nulls
StepF ==
    /\ pc = "F"
    /\ LET kept == Deduplicate(df)
       IN  /\ df' = kept
           /\ report' = AddStep(
                 report @@ [deduplicated_rows |-> Len(df) - Len(kept)],
                 <<"Deduplicated by iso_a2 keeping rows with more non-nulls on key metrics">>)
           /\ stage' = [stage EXCEPT !.F = kept]
    /\ pc' = "G"
    /\ UNCHANGED <<generate_report, columns, df_raw, error, calls>>

\* df["pop_density"] = ...: the column is added, or replaced if it exists
AddDensity(t) ==
    Series([i \in 1..Len(t) |->
               [src |-> t[i].src, iso_a2 |-> t[i].iso_a2, name_long |-> t[i].name_long,
                continent |-> t[i].continent, subregion |-> t[i].subregion,
                area_km2 |-> t[i].area_km2, pop |-> t[i].pop,
                lifeExp |-> t[i].lifeExp, gdpPercap |-> t[i].gdpPercap,
                pop_density |-> Divide(t[i].pop, t[i].area_km2)]])

\* Step G: derive pop_density
StepG ==
    /\ pc = "G"
    /\ df' = AddDensity(df)
    /\ columns' = columns \cup {"pop_density"}
    /\ pc' = "H"
    /\ UNCHANGED <<generate_report, df_raw, report, stage, error, calls>>

\* Step H: summary stats report
FloatCols == <<"area_km2", "pop", "lifeExp", "gdpPercap", "pop_density">>
LabelCols == <<"iso_a2", "name_long", "continent", "subregion">>

NotNaCount(t, col) == Cardinality({i \in 1..Len(t) : NotNa(t[i][col])})
NotNACount(t, col) == Cardinality({i \in 1..Len(t) : t[i][col] # NA})

\* df[c].notna().mean() as <<non-null cells, cells>>
NonNullRatio(t) ==
    [c \in (SeqRange(FloatCols) \cup SeqRange(LabelCols)) \cap columns |->
        IF c \in SeqRange(FloatCols) THEN <<NotNaCount(t, c), Len(t)>>
        ELSE <<NotNACount(t, c), Len(t)>>]

\* df[...].describe(): only the count row is represented
Stats(t) == [c \in SeqRange(FloatCols) |-> [count |-> NotNaCount(t, c)]]

\* generate_report is read here only, so the value the caller passed is drawn
\* here; until then the variable holds the parameter's default
StepH ==
    /\ pc = "H"
    /\ \E flag \in BOOLEAN :
        /\ generate_report' = flag
        /\ report' = IF flag
                     THEN report @@ [non_null_ratio |-> NonNullRatio(df),
                                     stats |-> Stats(df),
                                     row_count |-> Len(df)]
                     ELSE report
    /\ pc' = "done"
    /\ UNCHANGED <<columns, df_raw, df, stage, error, calls>>

Next == StepA \/ StepB \/ StepC \/ StepD \/ StepE \/ StepF \/ StepG \/ StepH

Spec == Init /\ [][Next]_vars

\* the table and the report clean_world_data returns
Returned == pc = "done"

\* ----- tables that lack columns ---------------------------------------------
MaxSchemaRows == 2

\* the cell a row holds for a column its table does not have
Absent == [kind |-> "absent"]

\* a complete record, one whose lifeExp can be filled from its subregion, and
\* one whose lifeExp and gdpPercap its subregion cannot fill
SchemaPool ==
    { Row("AA", "Alfa", "C1", "S1", Int_(10), Int_(20), Int_(80), Int_(100)),
      Row("AA", "Alfa", "C1", "S1", Int_(10), Int_(20), None,     Int_(100)),
      Row("BB", "Bravo", "C1", "S2", Int_(10), Int_(20), None,     None) }

\* the table t without the columns that are not in cols
Project(t, cols) ==
    Series([i \in 1..Len(t) |->
               [c \in DOMAIN t[i] |->
                   IF c = "src" \/ c \in cols THEN t[i][c] ELSE Absent]])

InitSchema ==
    \E cols \in SUBSET RequiredColumns :
        \E n \in 0..MaxSchemaRows : \E rows \in [1..n -> SchemaPool] :
            Enter(Project(Tagged(rows), cols), cols)

SpecSchema == InitSchema /\ [][Next]_vars

\* ----- tables with one textual cell ------------------------------------------
MaxTextLen == 4

\* the characters of a textual cell: digits, the two separators, a space and
\* the letters of "nan" and "Nan"
TextChars == {"1", "2", ",", NBSP, " ", "n", "a", "N"}

\* the strings of at most n characters
Strings(n) == UNION {[1..k -> TextChars] : k \in 0..n}

InitCoerce ==
    \E s \in Strings(MaxTextLen) :
        Enter(Tagged(<<Row("AA", "Alfa", "C1", "S1",
                           Int_(10), Text(s), Int_(80), Int_(100))>>),
              RequiredColumns)

SpecCoerce == InitCoerce /\ [][Next]_vars

\* ----- tables entering Step F ------------------------------------------------
MaxDedupRows == 3

\* Records as Step F can receive them: identifiers, area_km2 and pop present,
\* lifeExp and gdpPercap present or null.
DedupPool ==
    { [iso_a2 |-> iso, name_long |-> "Alfa", continent |-> "C1",
       subregion |-> "S1", area_km2 |-> Flt(10), pop |-> Flt(20),
       lifeExp |-> life, gdpPercap |-> gdp] :
         iso \in {"AA", "BB"}, life \in {NaN, Flt(60), Flt(80)},
         gdp \in {NaN, Flt(100)} }

\* the state on reaching Step F with the given table
InitDedup ==
    \E n \in 0..MaxDedupRows : \E rows \in [1..n -> DedupPool] :
        /\ pc = "F"
        /\ generate_report = TRUE
        /\ columns = RequiredColumns
        /\ df_raw = Tagged(rows)
        /\ df = df_raw
        /\ report = [steps |-> <<>>]
        /\ stage = [EmptyStages EXCEPT !.E = Tagged(rows)]
        /\ error = {}
        /\ calls = <<>>

NextDedup == StepF \/ StepG \/ StepH

SpecDedup == InitDedup /\ [][NextDedup]_vars

\* ----- a second call on the returned table ----------------------------------
MaxRerunRows == 2

\* a cell of a float column as the next call finds it
AsRawCell(c) == IF IsNa(c) THEN None ELSE Float_(H(c))

\* the returned table as an input table: the numeric columns are float
\* columns, pop_density is one more column, rows are numbered anew
AsInput(t) ==
    Series([i \in 1..Len(t) |->
               [src |-> i, iso_a2 |-> t[i].iso_a2, name_long |-> t[i].name_long,
                continent |-> t[i].continent, subregion |-> t[i].subregion,
                area_km2 |-> AsRawCell(t[i].area_km2), pop |-> AsRawCell(t[i].pop),
                lifeExp |-> AsRawCell(t[i].lifeExp),
                gdpPercap |-> AsRawCell(t[i].gdpPercap),
                pop_density |-> t[i].pop_density]])

\* clean_world_data(df_clean): the returned table is cleaned again
Rerun ==
    /\ pc = "done"
    /\ calls = <<>>
    /\ calls' = <<[df |-> df, report |-> report]>>
    /\ df_raw' = AsInput(df)
    /\ df' = df_raw'
    /\ report' = [steps |-> <<>>]
    /\ stage' = EmptyStages
    /\ generate_report' = TRUE
    /\ pc' = "A"
    /\ UNCHANGED <<columns, error>>

InitTwice ==
    \E n \in 0..MaxRerunRows : \E rows \in [1..n -> RowPool] :
        Enter(Tagged(rows), RequiredColumns)

NextTwice == Next \/ Rerun

SpecTwice == InitTwice /\ [][NextTwice]_vars

\* the call has ended, with a result or with an error
Ended == pc \in {"done", "raised"}

\* the required columns the table handed in does not have
AbsentColumns == RequiredColumns \ columns

\* ==========================================================================
\* Properties
\* ==========================================================================
\* Vocabulary of the properties, stated on cells directly.
Present(c) == c # <<>>
Positive(c) == c # <<>> /\ c[1] > 0
NonPositive(c) == c # <<>> /\ c[1] <= 0
\* strictly inside (0, 120); cells hold twice the value
InRange(c) == c # <<>> /\ c[1] > 0 /\ c[1] < 2 * LifeExpUpper
OutsideRange(c) == c # <<>> /\ (c[1] <= 0 \/ c[1] >= 2 * LifeExpUpper)

HasSrc(t, s) == \E i \in 1..Len(t) : t[i].src = s
RowOf(t, s) == t[CHOOSE i \in 1..Len(t) : t[i].src = s]
Removed(before, after) == Srcs(before) \ Srcs(after)

\* the input column as numbers, whatever happens to its rows later
InputColumn(col) == ToNumericSafe(Column(df_raw, col))

\* C1: every returned record has a non-null iso_a2 and a non-null name_long,
\* and no two returned records share an iso_a2.
C1_IdentifiersPresentAndUnique ==
    Returned =>
        /\ \A i \in 1..Len(df) : df[i].iso_a2 # NA /\ df[i].name_long # NA
        /\ \A i, j \in 1..Len(df) : df[i].iso_a2 = df[j].iso_a2 => i = j

\* a run that dropped a record without identifier and merged duplicates
C1_Witness ==
    /\ Returned
    /\ Len(df) > 0
    /\ report.dropped_missing_identifiers > 0
    /\ report.deduplicated_rows > 0

\* C2 (as claimed): every returned record has area_km2 > 0, pop > 0 and
\* gdpPercap > 0, none of them null.
C2_AllPositive ==
    Returned =>
        \A i \in 1..Len(df) :
            Positive(df[i].area_km2) /\ Positive(df[i].pop) /\ Positive(df[i].gdpPercap)

\* C2 (amended): every returned record has area_km2 > 0 and pop > 0; its
\* gdpPercap is > 0 when some record that survived the identifier and range
\* filters holds a gdpPercap, and null when none does.
C2_PositiveOrNoSource ==
    Returned =>
        LET source == \E k \in 1..Len(stage.C) : Present(stage.C[k].gdpPercap)
        IN  \A i \in 1..Len(df) :
                /\ Positive(df[i].area_km2)
                /\ Positive(df[i].pop)
                /\ IF source THEN Positive(df[i].gdpPercap)
                   ELSE df[i].gdpPercap = <<>>

\* a run that dropped a non-positive record and returned an imputed gdpPercap
C2_Witness ==
    /\ Returned
    /\ report.dropped_invalid_nonpositive > 0
    /\ \E i \in 1..Len(df) :
        /\ Positive(df[i].gdpPercap)
        /\ RowOf(stage.C, df[i].src).gdpPercap = <<>>

\* C3 (as claimed): when the input holds a non-null lifeExp (resp. gdpPercap)
\* in any row, no returned record is null in that column.
C3_TotalityFromInput ==
    Returned =>
        \A c \in {"lifeExp", "gdpPercap"} :
            (\E k \in 1..Len(df_raw) : Present(InputColumn(c)[k]))
                => \A i \in 1..Len(df) : Present(df[i][c])

\* C3 (amended): when some record that has both identifiers and survives the
\* range filter holds a value of the column (for lifeExp: one strictly inside
\* (0, 120)), no returned record is null in that column.
C3_TotalityFromSurvivors ==
    Returned =>
        \A c \in {"lifeExp", "gdpPercap"} :
            (\E k \in 1..Len(stage.C_drop) :
                IF c = "lifeExp" THEN InRange(stage.C_drop[k][c])
                ELSE Present(stage.C_drop[k][c]))
                => \A i \in 1..Len(df) : Present(df[i][c])

\* a returned record without subregion and continent whose lifeExp was filled
\* in, which only the global tier can do
C3_Witness ==
    /\ Returned
    /\ \E i \in 1..Len(df) :
        /\ df[i].subregion = NA /\ df[i].continent = NA
        /\ RowOf(stage.C, df[i].src).lifeExp = <<>>
        /\ Present(df[i].lifeExp)

\* C4: when exactly two input records share an iso_a2, one with all four
\* numeric fields present and valid and the other equal to it except for one
\* null numeric field, the single returned record of that iso_a2 carries the
\* values of the fully populated record, in either input order.
FullyValid(k) ==
    /\ df_raw[k].iso_a2 # NA /\ df_raw[k].name_long # NA
    /\ Positive(InputColumn("area_km2")[k])
    /\ Positive(InputColumn("pop")[k])
    /\ InRange(InputColumn("lifeExp")[k])
    /\ Positive(InputColumn("gdpPercap")[k])

\* row m equals row k except that exactly one numeric field of m is null
SameButOneNull(k, m) ==
    /\ \A c \in {"iso_a2", "name_long", "continent", "subregion"} :
            df_raw[m][c] = df_raw[k][c]
    /\ \E c \in SeqRange(NUMERIC_COLS) :
        /\ InputColumn(c)[m] = <<>>
        /\ \A d \in SeqRange(NUMERIC_COLS) \ {c} :
                InputColumn(d)[m] = InputColumn(d)[k]

C4_FullRecordRetained ==
    Returned =>
        \A k, m \in 1..Len(df_raw) :
            ( /\ k # m
              /\ FullyValid(k)
              /\ SameButOneNull(k, m)
              /\ \A n \in 1..Len(df_raw) :
                    df_raw[n].iso_a2 = df_raw[k].iso_a2 => n \in {k, m} )
            => /\ Cardinality({i \in 1..Len(df) : df[i].iso_a2 = df_raw[k].iso_a2}) = 1
               /\ \A i \in 1..Len(df) :
                    df[i].iso_a2 = df_raw[k].iso_a2 =>
                        \A c \in SeqRange(NUMERIC_COLS) :
                            df[i][c] = InputColumn(c)[k]

\* C5: every returned lifeExp is null or strictly inside (0, 120), and so is
\* every lifeExp of the table imputation produced.
C5_LifeExpInRange ==
    Returned =>
        /\ \A i \in 1..Len(df) : df[i].lifeExp = <<>> \/ InRange(df[i].lifeExp)
        /\ \A k \in 1..Len(stage.D) :
                stage.D[k].lifeExp = <<>> \/ InRange(stage.D[k].lifeExp)

\* a returned record whose input lifeExp was exactly 0 or exactly 120 and now
\* carries an imputed value
C5_Witness ==
    /\ Returned
    /\ \E i \in 1..Len(df) :
        /\ InputColumn("lifeExp")[df[i].src] \in {<<0>>, <<2 * LifeExpUpper>>}
        /\ InRange(df[i].lifeExp)

\* C6: a record with both identifiers leaves the table at the range filter
\* exactly when its coerced pop, area_km2 or gdpPercap is <= 0 (a null never
\* does it); dropped_invalid_nonpositive counts exactly these records and
\* dropped_missing_area_or_pop counts none of them.
HardDropped ==
    {stage.B[k].src : k \in {n \in 1..Len(stage.B) :
        \/ NonPositive(stage.B[n].pop)
        \/ NonPositive(stage.B[n].area_km2)
        \/ NonPositive(stage.B[n].gdpPercap)}}

C6_HardDropAccounting ==
    Returned =>
        /\ Removed(stage.B, stage.C_drop) = HardDropped
        /\ report.dropped_invalid_nonpositive = Cardinality(HardDropped)
        /\ HardDropped \cap Removed(stage.D, stage.E) = {}
        /\ report.dropped_missing_area_or_pop =
                Cardinality(Removed(stage.D, stage.E))

\* a run with a record of area_km2 = 0 and null pop, and another record whose
\* null pop let it through the range filter
C6_Witness ==
    /\ Returned
    /\ \E k \in 1..Len(stage.B) :
        stage.B[k].area_km2 = <<0>> /\ stage.B[k].pop = <<>>
    /\ \E k \in 1..Len(stage.C_drop) :
        stage.C_drop[k].pop = <<>> /\ stage.C_drop[k].src \notin Srcs(stage.E)

\* C7: the records that reach the lifeExp range test with a lifeExp outside
\* (0, 120)
SoftNulled ==
    {stage.C_drop[k].src : k \in {n \in 1..Len(stage.C_drop) :
        OutsideRange(stage.C_drop[n].lifeExp)}}

\* report.get(key, 0)
Counter(key) == IF key \in DOMAIN report THEN report[key] ELSE 0

\* C7 (as claimed): such a record is kept, its lifeExp is reset to null and
\* then filled by imputation, and lifeExp_out_of_range_set_nan is the number
\* of such records.
C7_SoftNullFilled ==
    Returned =>
        /\ \A s \in SoftNulled :
            /\ HasSrc(stage.D, s)
            /\ RowOf(stage.C, s).lifeExp = <<>>
            /\ Present(RowOf(stage.D, s).lifeExp)
        /\ Counter("lifeExp_out_of_range_set_nan") = Cardinality(SoftNulled)

\* C7 (amended): such a record is kept through the range filter and the
\* imputation and its lifeExp is reset to null; imputation then fills it with
\* a value inside (0, 120) when some record at that stage holds a lifeExp
\* inside (0, 120), and leaves it null otherwise; the report holds
\* lifeExp_out_of_range_set_nan, equal to the number of such records, when
\* there is at least one, and does not hold the key when there is none.
C7_SoftNullAccounting ==
    Returned =>
        /\ \A s \in SoftNulled :
            /\ HasSrc(stage.D, s)
            /\ RowOf(stage.C, s).lifeExp = <<>>
            /\ IF \E k \in 1..Len(stage.C_drop) : InRange(stage.C_drop[k].lifeExp)
               THEN InRange(RowOf(stage.D, s).lifeExp)
               ELSE RowOf(stage.D, s).lifeExp = <<>>
        /\ IF SoftNulled # {}
           THEN /\ "lifeExp_out_of_range_set_nan" \in DOMAIN report
                /\ report.lifeExp_out_of_range_set_nan = Cardinality(SoftNulled)
           ELSE "lifeExp_out_of_range_set_nan" \notin DOMAIN report

\* a run with a record of lifeExp 0, one of lifeExp 120, and one of them
\* returned with an imputed lifeExp
C7_Witness ==
    /\ Returned
    /\ \E s, u \in SoftNulled :
        /\ RowOf(stage.C_drop, s).lifeExp = <<0>>
        /\ RowOf(stage.C_drop, u).lifeExp = <<2 * LifeExpUpper>>
    /\ \E i \in 1..Len(df) : df[i].src \in SoftNulled /\ InRange(df[i].lifeExp)

\* C8: a record without iso_a2 or without name_long is not returned, adds
\* exactly 1 to dropped_missing_identifiers and nothing to the other drop
\* counters, which count only records removed after Step A.
MissingIdentifier ==
    {k \in 1..Len(df_raw) : df_raw[k].iso_a2 = NA \/ df_raw[k].name_long = NA}

C9_DensityIsQuotient ==
    Returned =>
        \A i \in 1..Len(df) :
            /\ Len(df[i].pop_density) = 2
            /\ df[i].pop_density[2] # 0
            /\ df[i].pop_density[1] * df[i].area_km2[1] =
                    df[i].pop_density[2] * df[i].pop[1]

\* a returned record whose density is not a whole number
C9_Witness ==
    /\ Returned
    /\ \E i \in 1..Len(df) :
        Len(df[i].pop_density) = 2 /\ df[i].pop_density[2] > 1

\* C10: for lifeExp and for gdpPercap, the three tier counters of the report
\* sum to the number of values that were null before imputation and non-null
\* after it (each resolved value is counted once, at the tier that filled it).
ResolvedCount(c) ==
    Cardinality({k \in 1..Len(stage.C) :
        stage.C[k][c] = <<>> /\ Present(stage.D[k][c])})

TierTotal(counts) == counts.by_subregion + counts.by_continent + counts.by_global

C10_TierCountsAreResolved ==
    Returned =>
        /\ TierTotal(report.impute_lifeExp) = ResolvedCount("lifeExp")
        /\ TierTotal(report.impute_gdpPercap) = ResolvedCount("gdpPercap")

\* C11: whenever a required column is absent from the input table, the call
\* ends with an error that names an absent column; it never returns a table
\* and a report.
C11_AbsentColumnFails ==
    (Ended /\ AbsentColumns # {}) =>
        /\ pc = "raised"
        /\ error # {}
        /\ error \subseteq AbsentColumns

\* C12: a textual cell made of digit groups separated by commas or
\* non-breaking spaces is coerced to the number formed by its digits, and an
\* empty or "nan"-like cell is coerced to null.
IsSeparator(ch) == ch \in {",", NBSP}

DigitGroups(s) ==
    /\ s # <<>>
    /\ IsDigit(s[1]) /\ IsDigit(s[Len(s)])
    /\ \A k \in 1..Len(s) : IsDigit(s[k]) \/ IsSeparator(s[k])
    /\ \A k \in 1..(Len(s) - 1) : ~(IsSeparator(s[k]) /\ IsSeparator(s[k + 1]))

NanLike(s) == Strip(s) \in {<<>>, <<"n", "a", "n">>, <<"N", "a", "n">>}

C12_SeparatorsRemoved ==
    \A i \in 1..Len(stage.B) : \A c \in SeqRange(NUMERIC_COLS) :
        LET cell == stage.A[i][c]
        IN  cell.kind = "text" =>
                /\ DigitGroups(cell.s) =>
                        stage.B[i][c] = Flt(DigitsValue(SelectSeq(cell.s, IsDigit)))
                /\ NanLike(cell.s) => stage.B[i][c] = NaN

\* C13: of the records sharing an iso_a2 at the deduplication stage exactly
\* one is kept, the first in input order among those with the greatest count
\* of non-null values among area_km2, pop, lifeExp, gdpPercap; a record whose
\* iso_a2 is unique passes through unchanged; deduplicated_rows is the number
\* of records removed.
Deduplicated == pc \in {"G", "H", "done"}

\* the number of non-null key metrics of a record
Completeness(r) ==
    Cardinality({c \in {"area_km2", "pop", "lifeExp", "gdpPercap"} : Present(r[c])})

\* the positions in t of the records with the given iso_a2
SameIso(t, code) == {i \in 1..Len(t) : t[i].iso_a2 = code}

\* position i holds the first of the most complete records of its group
FirstMostComplete(t, i) ==
    /\ \A j \in SameIso(t, t[i].iso_a2) : Completeness(t[j]) <= Completeness(t[i])
    /\ \A j \in SameIso(t, t[i].iso_a2) :
            j < i => Completeness(t[j]) < Completeness(t[i])

C13_DedupStageRule ==
    Deduplicated =>
        /\ \A i \in 1..Len(stage.E) :
                Cardinality(SameIso(stage.F, stage.E[i].iso_a2)) = 1
        /\ \A k \in 1..Len(stage.F) :
                \E i \in 1..Len(stage.E) :
                    stage.F[k] = stage.E[i] /\ FirstMostComplete(stage.E, i)
        /\ report.deduplicated_rows = Len(stage.E) - Len(stage.F)

\* a group whose second record is more complete than its first and a record
\* alone in its group have been deduplicated
C13_Witness ==
    /\ Deduplicated
    /\ \E i, j \in 1..Len(stage.E) :
            /\ i < j /\ stage.E[i].iso_a2 = stage.E[j].iso_a2
            /\ Completeness(stage.E[i]) < Completeness(stage.E[j])
            /\ \E k \in 1..Len(stage.F) : stage.F[k] = stage.E[j]
    /\ \E i \in 1..Len(stage.E) : SameIso(stage.E, stage.E[i].iso_a2) = {i}
    /\ report.deduplicated_rows = 1

\* C14: a lifeExp or gdpPercap value that is null at the imputation stage is
\* filled with the median of its subregion if the record has a subregion and
\* that median exists, otherwise with the median of its continent if the
\* record has a continent and that median exists, otherwise with the median
\* of the whole table; a non-null value is not changed; the medians are those
\* of the column as it stood before imputation.
\* Step D has just run: stage.C and stage.D are the tables around it
Imputed == pc = "E"

\* the median of column c over the records of t that share record i's gcol
MedianWithin(t, c, gcol, i) ==
    Median(Column(SelectSeq(t, LAMBDA r : r[gcol] = t[i][gcol]), c))

ExpectedFill(t, c, i) ==
    IF t[i].subregion # NA /\ Present(MedianWithin(t, c, "subregion", i))
    THEN MedianWithin(t, c, "subregion", i)
    ELSE IF t[i].continent # NA /\ Present(MedianWithin(t, c, "continent", i))
    THEN MedianWithin(t, c, "continent", i)
    ELSE Median(Column(t, c))

C14_ImputationPriority ==
    Imputed =>
        /\ Len(stage.D) = Len(stage.C)
        /\ \A i \in 1..Len(stage.C) : \A c \in {"lifeExp", "gdpPercap"} :
                stage.D[i][c] =
                    IF Present(stage.C[i][c]) THEN stage.C[i][c]
                    ELSE ExpectedFill(stage.C, c, i)

\* a null value has been filled with a group median that is not the median
\* of the whole table, next to a value that was not null
C14_Witness ==
    /\ Imputed
    /\ \E i, j \in 1..Len(stage.C) : \E c \in {"lifeExp", "gdpPercap"} :
            /\ stage.C[i][c] = NaN
            /\ Present(stage.D[i][c])
            /\ stage.D[i][c] # Median(Column(stage.C, c))
            /\ Present(stage.C[j][c])

\* C15: in every returned record area_km2 and pop are the numeric coercion of
\* the cells of the same input record; a record with both identifiers that is
\* not hard-dropped and whose coerced area_km2 or pop is null is not
\* returned and is counted once in dropped_missing_area_or_pop, which counts
\* nothing else.
MissingCritical ==
    LET area == InputColumn("area_km2")
        pop  == InputColumn("pop")
        noId == MissingIdentifier
        hard == HardDropped
    IN  {k \in 1..Len(df_raw) :
            /\ k \notin noId
            /\ k \notin hard
            /\ (area[k] = NaN \/ pop[k] = NaN)}

C15_CriticalFieldsNeverImputed ==
    Returned =>
        LET area    == InputColumn("area_km2")
            pop     == InputColumn("pop")
            missing == MissingCritical
        IN  /\ \A i \in 1..Len(df) :
                    /\ df[i].area_km2 = area[df[i].src]
                    /\ df[i].pop = pop[df[i].src]
            /\ missing \cap Srcs(df) = {}
            /\ Removed(stage.D, stage.E) = missing
            /\ report.dropped_missing_area_or_pop = Cardinality(missing)

\* a run that returned a record whose area_km2 was a textual cell and dropped
\* a record for its null pop
C15_Witness ==
    /\ Returned
    /\ \E i \in 1..Len(df) : df_raw[df[i].src].area_km2.kind = "text"
    /\ \E k \in MissingCritical : InputColumn("pop")[k] = NaN

\* C16: the number of input records is the number of returned records plus
\* the four drop counters; every removed record falls under exactly one of
\* the four reasons, each counter being the number of records of its reason;
\* with generate_report the report's row_count is the number of returned
\* records.
\* the records that reach deduplication and share their iso_a2 with a
\* returned record that is another record
Superseded ==
    {stage.E[k].src : k \in {n \in 1..Len(stage.E) :
        \E i \in 1..Len(df) :
            df[i].iso_a2 = stage.E[n].iso_a2 /\ df[i].src # stage.E[n].src}}

RemovalReasons == <<MissingIdentifier, HardDropped, MissingCritical, Superseded>>

DropCounters ==
    <<report.dropped_missing_identifiers, report.dropped_invalid_nonpositive,
      report.dropped_missing_area_or_pop, report.deduplicated_rows>>

C16_RowAccounting ==
    Returned =>
        LET reasons  == RemovalReasons
            counters == DropCounters
        IN  /\ Len(df_raw) = Len(df) + counters[1] + counters[2]
                                + counters[3] + counters[4]
            /\ Cardinality(Srcs(df)) = Len(df)
            /\ Removed(df_raw, df) = UNION {reasons[k] : k \in 1..4}
            /\ \A k, m \in 1..4 : k # m => reasons[k] \cap reasons[m] = {}
            /\ \A k \in 1..4 : counters[k] = Cardinality(reasons[k])
            /\ generate_report => report.row_count = Len(df)

\* a run with a report that returned a record and removed records for two
\* different reasons
C16_Witness ==
    /\ Returned
    /\ generate_report
    /\ report.row_count > 0
    /\ LET reasons == RemovalReasons
       IN  Cardinality({k \in 1..4 : reasons[k] # {}}) >= 2

\* C17: cleaning the returned table again returns the same records in the
\* same order with the same field values, pop_density included, and the
\* second run's dropped_missing_identifiers, dropped_invalid_nonpositive,
\* dropped_missing_area_or_pop and deduplicated_rows are all 0.
ReturnedAgain == Returned /\ Len(calls) = 1

OutputFields ==
    {"iso_a2", "name_long", "continent", "subregion", "area_km2", "pop",
     "lifeExp", "gdpPercap", "pop_density"}

C17_Idempotent ==
    ReturnedAgain =>
        /\ Len(df) = Len(calls[1].df)
        /\ \A i \in 1..Len(df) :
                /\ df[i].src = i
                /\ \A c \in OutputFields : df[i][c] = calls[1].df[i][c]
        /\ \A k \in 1..4 : DropCounters[k] = 0

\* a second run on at least two records with a density, after a first run
\* that imputed a lifeExp
C17_Witness ==
    /\ ReturnedAgain
    /\ Len(df) >= 2
    /\ TierTotal(calls[1].report.impute_lifeExp) > 0
    /\ \A i \in 1..Len(df) : df[i].pop_density # NaN

====
